---- MODULE Spec2Model ----
(***************************************************************************)
(* Preflight checks of the installer (pkg/preflight/checks.go).            *)
(*                                                                         *)
(* A Go string is a sequence of one-character strings, so that trimming,   *)
(* splitting, number parsing and number formatting are computed and not    *)
(* assumed.  A message is the record [tmpl, args]: the format string that  *)
(* produced it (tmpl = "" is the empty message) and its formatted          *)
(* arguments.  An error is the record [kind, path, got]; kind = "nil" is   *)
(* the nil error.                                                          *)
(*                                                                         *)
(* Numbers are those of the program as long as they stay below 2^31: the   *)
(* hosts of the model keep every count, size and total in that range, so   *)
(* the saturation of strconv.Atoi and the wrap of a 64-bit uint are not    *)
(* reached.                                                                *)
(***************************************************************************)
EXTENDS Integers, Sequences, FiniteSets, TLC

----------------------------------------------------------------------------
(* Program constants *)

MinCPUTest == 8
MinCPUProd == 16
MinMemoryTest == 32
MinMemoryProd == 64
MinNetworkGbpsTest == 1
MinNetworkGbpsProd == 10

----------------------------------------------------------------------------
(* Bounds of the model *)

\* longest dmidecode output, in lines
MaxRecords == 2
\* concurrent callers in SpecConc
NumProcs == 2

----------------------------------------------------------------------------
(* Strings *)

Digits == <<"0", "1", "2", "3", "4", "5", "6", "7", "8", "9">>

IsDigit(c) == \E i \in 1..10 : Digits[i] = c

DigitVal(c) == (CHOOSE i \in 1..10 : Digits[i] = c) - 1

\* unicode.IsSpace on the characters the inputs are made of
IsSpace(c) == c \in {" ", "\t", "\n", "\r"}

Drop(s, k) == SubSeq(s, k + 1, Len(s))

HasPrefix(s, p) == Len(s) >= Len(p) /\ SubSeq(s, 1, Len(p)) = p

RECURSIVE TrimLeft(_)
TrimLeft(s) == IF s # <<>> /\ IsSpace(Head(s)) THEN TrimLeft(Tail(s)) ELSE s

RECURSIVE TrimRight(_)
TrimRight(s) ==
    IF s # <<>> /\ IsSpace(s[Len(s)]) THEN TrimRight(SubSeq(s, 1, Len(s) - 1)) ELSE s

\* strings.TrimSpace
TrimSpace(s) == TrimRight(TrimLeft(s))

\* index of the first "\n" of s, 0 when there is none
RECURSIVE IndexNL(_, _)
IndexNL(s, i) ==
    IF i > Len(s) THEN 0 ELSE IF s[i] = "\n" THEN i ELSE IndexNL(s, i + 1)

\* strings.Split(s, "\n"): always at least one element
RECURSIVE Split(_)
Split(s) ==
    LET i == IndexNL(s, 1)
    IN  IF i = 0 THEN <<s>> ELSE <<SubSeq(s, 1, i - 1)>> \o Split(Drop(s, i))

\* the value of a sequence of decimal digits
RECURSIVE DigitsVal(_, _)
DigitsVal(s, acc) ==
    IF s = <<>> THEN acc ELSE DigitsVal(Tail(s), acc * 10 + DigitVal(Head(s)))

AllDigits(s) == s # <<>> /\ \A i \in 1..Len(s) : IsDigit(s[i])

\* strconv.Atoi with the error dropped: 0 unless s is an optionally signed
\* run of decimal digits
Atoi(s) ==
    IF s # <<>> /\ Head(s) \in {"+", "-"}
    THEN IF AllDigits(Tail(s))
         THEN (IF Head(s) = "-" THEN -1 ELSE 1) * DigitsVal(Tail(s), 0)
         ELSE 0
    ELSE IF AllDigits(s) THEN DigitsVal(s, 0) ELSE 0

\* the %d verb of fmt.Sprintf
RECURSIVE Utoa(_)
Utoa(n) == IF n < 10 THEN <<Digits[n + 1]>> ELSE Utoa(n \div 10) \o <<Digits[(n % 10) + 1]>>

Itoa(n) == IF n < 0 THEN <<"-">> \o Utoa(-n) ELSE Utoa(n)

----------------------------------------------------------------------------
(* fmt.Sscanf, for the two formats the program uses.  A scanning step      *)
(* yields [ok, rest]: whether it matched and the input left.               *)

\* a literal of the format: the input must carry it, character by character
ScanLiteral(in, lit) ==
    IF HasPrefix(in, lit) THEN [ok |-> TRUE, rest |-> Drop(in, Len(lit))]
    ELSE [ok |-> FALSE, rest |-> in]

RECURSIVE SkipSpace(_)
SkipSpace(in) ==
    IF in # <<>> /\ IsSpace(Head(in)) /\ Head(in) # "\n" THEN SkipSpace(Tail(in)) ELSE in

\* a space of the format: one or more spaces of the input, or its end
ScanSpace(in) ==
    IF in = <<>> THEN [ok |-> TRUE, rest |-> in]
    ELSE IF IsSpace(Head(in)) /\ Head(in) # "\n" THEN [ok |-> TRUE, rest |-> SkipSpace(in)]
    ELSE [ok |-> FALSE, rest |-> in]

RECURSIVE DigitRun(_)
DigitRun(in) ==
    IF in # <<>> /\ IsDigit(Head(in)) THEN 1 + DigitRun(Tail(in)) ELSE 0

RECURSIVE TokenRun(_)
TokenRun(in) ==
    IF in # <<>> /\ ~IsSpace(Head(in)) THEN 1 + TokenRun(Tail(in)) ELSE 0

\* %d into a uint: leading spaces are skipped, no sign is accepted, at least
\* one digit is needed
ScanUint(in) ==
    LET t == SkipSpace(in)
        k == DigitRun(t)
    IN  IF k = 0 THEN [ok |-> FALSE, val |-> 0, rest |-> t]
        ELSE [ok |-> TRUE, val |-> DigitsVal(SubSeq(t, 1, k), 0), rest |-> Drop(t, k)]

\* %s: leading spaces are skipped, then the characters up to the next space
ScanString(in) ==
    LET t == SkipSpace(in)
        k == TokenRun(t)
    IN  IF k = 0 THEN [ok |-> FALSE, val |-> <<>>, rest |-> t]
        ELSE [ok |-> TRUE, val |-> SubSeq(t, 1, k), rest |-> Drop(t, k)]

\* fmt.Sscanf(line, "Range Size: %d %s", &rangeSize, &unit): n is the number
\* of verbs stored
SscanfRangeSize(line) ==
    LET none == [n |-> 0, rangeSize |-> 0, unit |-> <<>>]
        a == ScanLiteral(line, <<"R", "a", "n", "g", "e">>)
        b == ScanSpace(a.rest)
        c == ScanLiteral(b.rest, <<"S", "i", "z", "e", ":">>)
        d == ScanSpace(c.rest)
        e == ScanUint(d.rest)
        f == ScanSpace(e.rest)
        g == ScanString(f.rest)
    IN  IF ~(a.ok /\ b.ok /\ c.ok /\ d.ok /\ e.ok) THEN none
        ELSE IF ~(f.ok /\ g.ok) THEN [n |-> 1, rangeSize |-> e.val, unit |-> <<>>]
        ELSE [n |-> 2, rangeSize |-> e.val, unit |-> g.val]

\* fmt.Sscanf(line, "MemTotal: %d kB", &memTotalKiB): the number is stored,
\* and counted, before the rest of the format is matched
SscanfMemTotal(line) ==
    LET a == ScanLiteral(line, <<"M", "e", "m", "T", "o", "t", "a", "l", ":">>)
        b == ScanSpace(a.rest)
        c == ScanUint(b.rest)
    IN  IF a.ok /\ b.ok /\ c.ok THEN [n |-> 1, memTotalKiB |-> c.val]
        ELSE [n |-> 0, memTotalKiB |-> 0]

\* bufio.ScanLines over the whole file: the lines without their "\n" (and a
\* "\r" before it); an empty last line is no line
RECURSIVE ScanLines(_)
ScanLines(data) ==
    LET i == IndexNL(data, 1)
        dropCR(l) == IF l # <<>> /\ l[Len(l)] = "\r" THEN SubSeq(l, 1, Len(l) - 1) ELSE l
    IN  IF data = <<>> THEN <<>>
        ELSE IF i = 0 THEN <<dropCR(data)>>
        ELSE <<dropCR(SubSeq(data, 1, i - 1))>> \o ScanLines(Drop(data, i))

----------------------------------------------------------------------------
(* Errors and messages *)

Err(kind, path, got) == [kind |-> kind, path |-> path, got |-> got]

NilErr == Err("nil", <<>>, 0)

\* errors of the operating system and of os/exec, as the program receives them
ExitError == Err("exit", <<>>, 0)
ExecError == Err("exec", <<>>, 0)
ErrNotExist == Err("notexist", <<>>, 0)
ErrPermission == Err("permission", <<>>, 0)

\* fmt.Sprintf(tmpl, args...): the format and its arguments, each formatted
Msg(tmpl, args) == [tmpl |-> tmpl, args |-> args]

NoMsg == Msg("", <<>>)

----------------------------------------------------------------------------
(* The host: what each external command prints and each file holds.  A     *)
(* host is described by what is installed (a core count, the memory        *)
(* ranges of the SMBIOS table, ...) and the commands render it as text.    *)

Num(n) == [err |-> NilErr, kind |-> "num", n |-> n, text |-> <<>>]
Text(t) == [err |-> NilErr, kind |-> "text", n |-> 0, text |-> t]
Fail(e) == [err |-> e, kind |-> "text", n |-> 0, text |-> <<>>]
FailWith(e, t) == [err |-> e, kind |-> "text", n |-> 0, text |-> t]

\* the standard output of a command that prints a number and a newline
Output(o) == IF o.kind = "num" THEN Itoa(o.n) \o <<"\n">> ELSE o.text

NprocOutcomes ==
    {Num(n) : n \in {0, 1, 7, 8, 15, 16, 17, 64}}
    \cup {Text(<<>>), Text(<<"a", "l", "l", "\n">>), Text(<<" ", "8", " ", "\n">>), Fail(ExecError), Fail(ExitError)}

Range(size, unit) == [kind |-> "range", size |-> size, unit |-> unit, text |-> <<>>]
Other(t) == [kind |-> "text", size |-> 0, unit |-> <<>>, text |-> t]

HugeUnits == {<<"T", "B">>, <<"P", "B">>, <<"E", "B">>, <<"Z", "B">>}

SummedUnits == {<<"G", "B">>, <<"M", "B">>, <<"k", "B">>, <<"b", "y", "t", "e", "s">>}

\* the lines dmidecode -t 19 may print
DmiLines ==
    {Range(2, <<"G", "B">>), Range(510, <<"G", "B">>), Range(30, <<"G", "B">>), Range(32, <<"G", "B">>),
     Range(2048, <<"M", "B">>), Range(1048576, <<"k", "B">>), Range(1073741824, <<"b", "y", "t", "e", "s">>),
     Range(512, <<"b", "y", "t", "e", "s">>), Range(8, <<"X", "B">>),
     Range(1, <<"T", "B">>), Range(4, <<"P", "B">>), Range(2, <<"E", "B">>), Range(3, <<"Z", "B">>),
     Other(<<"\t", "P", "a", "r", "t", "i", "t", "i", "o", "n", " ", "W", "i", "d", "t", "h", ":", " ", "1">>), Other(<<>>)}

RECURSIVE SeqsUpTo(_, _)
SeqsUpTo(A, n) ==
    IF n = 0 THEN {<<>>}
    ELSE LET shorter == SeqsUpTo(A, n - 1)
         IN  shorter \cup {Append(q, a) : q \in shorter, a \in A}

DmiOutcomes ==
    {[err |-> NilErr, recs |-> r] : r \in SeqsUpTo(DmiLines, MaxRecords)}
    \cup {[err |-> ExecError, recs |-> <<>>], [err |-> ExitError, recs |-> <<>>]}

DmiLineText(l) ==
    IF l.kind = "range"
    THEN <<"\t", "R", "a", "n", "g", "e", " ", "S", "i", "z", "e", ":", " ">> \o Itoa(l.size) \o <<" ">> \o l.unit
    ELSE l.text

\* the standard output of dmidecode: every line ends in a newline
RECURSIVE DmiOutput(_)
DmiOutput(recs) ==
    IF recs = <<>> THEN <<>>
    ELSE DmiLineText(Head(recs)) \o <<"\n">> \o DmiOutput(Tail(recs))

MemTotalLine(kb) == [kind |-> "memtotal", kb |-> kb, text |-> <<>>]
MemOtherLine(t) == [kind |-> "text", kb |-> 0, text |-> t]

MemInfoLineText(l) ==
    IF l.kind = "memtotal"
    THEN <<"M", "e", "m", "T", "o", "t", "a", "l", ":", " ", " ", " ", " ", " ", " ", " ">> \o Itoa(l.kb) \o <<" ", "k", "B">>
    ELSE l.text

RECURSIVE MemInfoData(_)
MemInfoData(ls) ==
    IF ls = <<>> THEN <<>>
    ELSE MemInfoLineText(Head(ls)) \o <<"\n">> \o MemInfoData(Tail(ls))

MemFile(ls) == [err |-> NilErr, lines |-> ls]

MemFree == MemOtherLine(<<"M", "e", "m", "F", "r", "e", "e", ":", " ", "1", "0", "2", "4", " ", "k", "B">>)

\* the memory-info pseudo-files: absent, unreadable, and with these contents
MemInfoFiles ==
    {[err |-> ErrNotExist, lines |-> <<>>], [err |-> ErrPermission, lines |-> <<>>],
     MemFile(<<>>), MemFile(<<MemFree>>),
     MemFile(<<MemTotalLine(32856636)>>),
     MemFile(<<MemFree, MemTotalLine(65758888)>>),
     MemFile(<<MemTotalLine(131841120), MemFree>>),
     MemFile(<<MemTotalLine(29360128)>>), MemFile(<<MemTotalLine(30408704)>>),
     MemFile(<<MemTotalLine(59768832)>>), MemFile(<<MemTotalLine(60817408)>>),
     MemFile(<<MemTotalLine(524288)>>),
     MemFile(<<MemTotalLine(0)>>),
     MemFile(<<MemTotalLine(0), MemTotalLine(65758888)>>)}

VirtOutcomes ==
    {FailWith(ExitError, <<"n", "o", "n", "e", "\n">>), FailWith(ExitError, <<>>), FailWith(ExitError, <<"k", "v", "m", "\n">>),
     Fail(ExecError), Text(<<"k", "v", "m", "\n">>), Text(<<"v", "m", "w", "a", "r", "e", "\n">>), Text(<<"\n">>)}

StatOutcomes == {NilErr, ErrNotExist, ErrPermission}

Devs == {"eth0", "eth1"}

SpeedFiles ==
    {Num(n) : n \in {-1, 0, 1, 100, 999, 1000, 2500, 9999, 10000, 25000}}
    \cup {Text(<<>>), Text(<<"u", "n", "k", "n", "o", "w", "n", "\n">>), Fail(ErrNotExist), Fail(ErrPermission)}

----------------------------------------------------------------------------
(* The checks that are one external call and a decision *)

CPUBoth == "Only %d CPU cores detected. SaftOS requires at least %d cores for testing and %d for production use."
CPUProd == "%d CPU cores detected. SaftOS requires at least %d cores for production use."
MemBoth == "Only %s RAM detected. SaftOS requires at least %dGiB for testing and %dGiB for production use."
MemProd == "%s RAM detected. SaftOS requires at least %dGiB for production use."
VirtMsg == "System is virtualized (%s) which is not supported in production."
KVMMsg == "SaftOS requires hardware-assisted virtualization, but /dev/kvm does not exist."
NetBoth == "Link speed of %s is only %dMpbs. SaftOS requires at least %dGbps for testing and %dGbps for production use."
NetProd == "Link speed of %s is %gGbps. SaftOS requires at least %dGbps for production use."

Result(m, e) == [msg |-> m, err |-> e]

\* CPUCheck.Run with the production comparison off by one
CPUCheckRunOffByOne(o) ==
    IF o.err # NilErr THEN Result(NoMsg, o.err)
    ELSE LET nproc == Atoi(TrimSpace(Output(o)))
         IN  IF nproc < MinCPUTest
             THEN Result(Msg(CPUBoth, <<Itoa(nproc), Itoa(MinCPUTest), Itoa(MinCPUProd)>>), NilErr)
             ELSE IF nproc <= MinCPUProd
             THEN Result(Msg(CPUProd, <<Itoa(nproc), Itoa(MinCPUProd)>>), NilErr)
             ELSE Result(NoMsg, NilErr)

\* CPUCheck.Run, given what execCommand("/usr/bin/nproc", "--all").Output() returns
CPUCheckRun(o) ==
    IF o.err # NilErr THEN Result(NoMsg, o.err)
    ELSE LET nproc == Atoi(TrimSpace(Output(o)))
         IN  IF nproc < MinCPUTest
             THEN Result(Msg(CPUBoth, <<Itoa(nproc), Itoa(MinCPUTest), Itoa(MinCPUProd)>>), NilErr)
             ELSE IF nproc < MinCPUProd
             THEN Result(Msg(CPUProd, <<Itoa(nproc), Itoa(MinCPUProd)>>), NilErr)
             ELSE Result(NoMsg, NilErr)

\* VirtCheck.Run comparing the output as printed, its newline included
VirtCheckRunUntrimmed(o) ==
    LET virt == TrimSpace(Output(o))
    IN  IF o.err # NilErr
        THEN Result(NoMsg, IF Output(o) = <<"n", "o", "n", "e">> THEN NilErr ELSE o.err)
        ELSE Result(Msg(VirtMsg, <<virt>>), NilErr)

\* VirtCheck.Run, given what systemd-detect-virt --vm returns
VirtCheckRun(o) ==
    LET virt == TrimSpace(Output(o))
    IN  IF o.err # NilErr
        THEN Result(NoMsg, IF virt = <<"n", "o", "n", "e">> THEN NilErr ELSE o.err)
        ELSE Result(Msg(VirtMsg, <<virt>>), NilErr)

\* KVMHostCheck.Run taking every stat error for an absent node
KVMHostCheckRunAnyError(statErr) ==
    IF statErr # NilErr THEN Result(Msg(KVMMsg, <<>>), NilErr)
    ELSE Result(NoMsg, statErr)

\* KVMHostCheck.Run, given the error of os.Stat(devKvm)
KVMHostCheckRun(statErr) ==
    IF statErr = ErrNotExist THEN Result(Msg(KVMMsg, <<>>), NilErr)
    ELSE Result(NoMsg, statErr)

\* fmt.Sprintf(sysClassNetDevSpeed, c.Dev)
SpeedPath(dev) == <<"/sys/class/net/", dev, "/speed">>

\* three decimals without their trailing zeros
RECURSIVE StripZeros(_)
StripZeros(ds) ==
    IF ds # <<>> /\ ds[Len(ds)] = "0" THEN StripZeros(SubSeq(ds, 1, Len(ds) - 1)) ELSE ds

\* the Gbps figure of an integer division
FormatGbpsWhole(speedMbps) == Utoa(speedMbps \div 1000)

\* the %g verb on float32(speedMbps) / 1000: the shortest decimal that is
\* speedMbps / 1000 (speedMbps has at most 7 digits here, so the quotient's
\* nearest float32 prints back as that decimal)
FormatGbps(speedMbps) ==
    LET frac == speedMbps % 1000
        ds == StripZeros(<<Digits[(frac \div 100) + 1], Digits[((frac \div 10) % 10) + 1],
                           Digits[(frac % 10) + 1]>>)
    IN  Utoa(speedMbps \div 1000) \o (IF ds = <<>> THEN <<>> ELSE <<".">> \o ds)

\* NetworkSpeedCheck.Run without the return that follows the bogus-speed error
NetworkSpeedCheckRunNoReturn(dev, o) ==
    IF o.err # NilErr THEN Result(NoMsg, o.err)
    ELSE LET speedMbps == Atoi(TrimSpace(Output(o)))
             e == IF speedMbps < 1 THEN Err("nicspeed", <<"/sys/class/net/", dev, "/speed">>, speedMbps)
                  ELSE NilErr
         IN  IF speedMbps < 1000 * MinNetworkGbpsTest
             THEN Result(Msg(NetBoth, <<<<dev>>, Itoa(speedMbps), Itoa(MinNetworkGbpsTest),
                                        Itoa(MinNetworkGbpsProd)>>), e)
             ELSE IF speedMbps < 1000 * MinNetworkGbpsProd
             THEN Result(Msg(NetProd, <<<<dev>>, Utoa(speedMbps \div 1000), Itoa(MinNetworkGbpsProd)>>), e)
             ELSE Result(NoMsg, e)

\* NetworkSpeedCheck{Dev: dev}.Run, given what os.ReadFile(speedPath) returns.
\* speedGbps < m for a whole m is speedMbps < 1000 * m: float32(speedMbps) is
\* exact and the division rounds to nearest.
NetworkSpeedCheckRun(dev, o) ==
    IF o.err # NilErr THEN Result(NoMsg, o.err)
    ELSE LET speedMbps == Atoi(TrimSpace(Output(o)))
         IN  IF speedMbps < 1
             THEN Result(NoMsg, Err("nicspeed", SpeedPath(dev), speedMbps))
             ELSE IF speedMbps < 1000 * MinNetworkGbpsTest
             THEN Result(Msg(NetBoth, <<<<dev>>, Itoa(speedMbps), Itoa(MinNetworkGbpsTest),
                                        Itoa(MinNetworkGbpsProd)>>), NilErr)
             ELSE IF speedMbps < 1000 * MinNetworkGbpsProd
             THEN Result(Msg(NetProd, <<<<dev>>, FormatGbps(speedMbps), Itoa(MinNetworkGbpsProd)>>),
                         NilErr)
             ELSE Result(NoMsg, NilErr)

----------------------------------------------------------------------------
(* MemoryCheck.Run, in the steps its external calls and loops divide it in *)

\* rangeSizeToKiB with the shift of the MB case copied to the GB case
rangeSizeToKiBCopied(rangeSize, unit) ==
    CASE unit = <<"G", "B">> -> rangeSize * 1024
      [] unit = <<"M", "B">> -> rangeSize * 1024
      [] unit = <<"k", "B">> -> rangeSize
      [] unit = <<"b", "y", "t", "e", "s">> -> rangeSize \div 1024
      [] OTHER -> 0

\* rangeSizeToKiB.  The inputs of the model keep every total below 2^31, so
\* that no shift or sum wraps the 64-bit uint of the program.
rangeSizeToKiB(rangeSize, unit) ==
    CASE unit = <<"G", "B">> -> rangeSize * 1048576
      [] unit = <<"M", "B">> -> rangeSize * 1024
      [] unit = <<"k", "B">> -> rangeSize
      [] unit = <<"b", "y", "t", "e", "s">> -> rangeSize \div 1024
      [] OTHER -> 0

\* the test of the huge units with "ZB" left out
IsHugeUnitNoZB(unit) == unit = <<"T", "B">> \/ unit = <<"P", "B">> \/ unit = <<"E", "B">>

\* unit == "TB" || unit == "PB" || unit == "EB" || unit == "ZB"
IsHugeUnit(unit) == unit = <<"T", "B">> \/ unit = <<"P", "B">> \/ unit = <<"E", "B">> \/ unit = <<"Z", "B">>

\* 1 << 30
OneTiBInKiB == 1073741824

\* wiggleRoom in tenths: 10 is the initial 1.0 and 9 the fallback's 0.9.
\* float32(memTotalGiB) < min * wiggleRoom, for a whole memTotalGiB, is
\* 10 * memTotalGiB < min * tenths (32 * 0.9 and 64 * 0.9 are no whole numbers,
\* in float32 as in the reals).
FullThreshold == 10
FallbackWiggleRoom == 9

\* the report with the thresholds never lowered
MemoryReportNoWiggle(memTotalKiB, wiggle) ==
    LET memTotalMiB == memTotalKiB \div 1024
        memTotalGiB == memTotalKiB \div 1048576
        memReported == IF memTotalGiB < 1 THEN Itoa(memTotalMiB) \o <<"M", "i", "B">>
                       ELSE Itoa(memTotalGiB) \o <<"G", "i", "B">>
    IN  IF memTotalGiB < MinMemoryTest
        THEN Result(Msg(MemBoth, <<memReported, Itoa(MinMemoryTest), Itoa(MinMemoryProd)>>), NilErr)
        ELSE IF memTotalGiB < MinMemoryProd
        THEN Result(Msg(MemProd, <<memReported, Itoa(MinMemoryProd)>>), NilErr)
        ELSE Result(NoMsg, NilErr)

\* lines 183-200: the report and the two-tier comparison
MemoryReport(memTotalKiB, wiggle) ==
    LET memTotalMiB == memTotalKiB \div 1024
        memTotalGiB == memTotalKiB \div 1048576
        memReported == IF memTotalGiB < 1 THEN Itoa(memTotalMiB) \o <<"M", "i", "B">>
                       ELSE Itoa(memTotalGiB) \o <<"G", "i", "B">>
    IN  IF 10 * memTotalGiB < MinMemoryTest * wiggle
        THEN Result(Msg(MemBoth, <<memReported, Itoa(MinMemoryTest), Itoa(MinMemoryProd)>>), NilErr)
        ELSE IF 10 * memTotalGiB < MinMemoryProd * wiggle
        THEN Result(Msg(MemProd, <<memReported, Itoa(MinMemoryProd)>>), NilErr)
        ELSE Result(NoMsg, NilErr)

\* lines 124-138 as one pass over the lines from the i-th on
RECURSIVE SumRangeSizes(_, _, _)
SumRangeSizes(ls, i, total) ==
    IF i > Len(ls) THEN total
    ELSE LET r == SscanfRangeSize(TrimSpace(ls[i]))
         IN  IF r.n = 2 /\ IsHugeUnit(r.unit) THEN OneTiBInKiB
             ELSE IF r.n = 2 THEN SumRangeSizes(ls, i + 1, total + rangeSizeToKiB(r.rangeSize, r.unit))
             ELSE SumRangeSizes(ls, i + 1, total)

\* lines 154-158 as one pass: the number of the first line that scans, or 0
RECURSIVE FirstMemTotal(_, _)
FirstMemTotal(ls, i) ==
    IF i > Len(ls) THEN 0
    ELSE LET r == SscanfMemTotal(ls[i])
         IN  IF r.n = 1 THEN r.memTotalKiB ELSE FirstMemTotal(ls, i + 1)

\* MemoryCheck.Run from call to return, given what dmidecode returns and what
\* the memory-info file holds
MemoryCheckRun(dmi, meminfo) ==
    LET primary == IF dmi.err = NilErr THEN SumRangeSizes(Split(DmiOutput(dmi.recs)), 1, 0) ELSE 0
        fallback == FirstMemTotal(ScanLines(MemInfoData(meminfo.lines)), 1)
    IN  IF primary # 0 THEN MemoryReport(primary, FullThreshold)
        ELSE IF meminfo.err # NilErr THEN Result(NoMsg, meminfo.err)
        ELSE IF fallback = 0 THEN Result(NoMsg, Err("nomemtotal", <<>>, 0))
        ELSE MemoryReport(fallback, FallbackWiggleRoom)


----------------------------------------------------------------------------
(* State *)

VARIABLES
    host,         \* what the commands and files of the machine yield; never written
    procs,        \* the callers that run checks
    pc,           \* where each caller is in the Run it called
    check,        \* the check each caller runs
    lines,        \* the lines the loop of a MemoryCheck.Run ranges over
    pos,          \* how many of them it has read
    memTotalKiB,  \* var memTotalKiB uint, of each caller's Run
    wiggleRoom,   \* var wiggleRoom float32, in tenths
    msg,          \* the message Run returned
    err,          \* the error Run returned
    calls         \* the commands and files the Run has used

vars == <<host, procs, pc, check, lines, pos, memTotalKiB, wiggleRoom, msg, err, calls>>

AllProcs == 1..NumProcs

CPUCheck == [type |-> "CPUCheck", Dev |-> ""]
MemoryCheck == [type |-> "MemoryCheck", Dev |-> ""]
VirtCheck == [type |-> "VirtCheck", Dev |-> ""]
KVMHostCheck == [type |-> "KVMHostCheck", Dev |-> ""]
NetworkSpeedCheck(dev) == [type |-> "NetworkSpeedCheck", Dev |-> dev]
NoCheck == [type |-> "", Dev |-> ""]

Checks == {CPUCheck, MemoryCheck, VirtCheck, KVMHostCheck} \cup {NetworkSpeedCheck(d) : d \in Devs}

\* the machine of the comment in MemoryCheck.Run, with 512 GiB, 16 cores, not
\* virtualized, /dev/kvm present and 10 Gbps links
DefaultHost ==
    [nproc |-> Num(16),
     dmi |-> [err |-> NilErr, recs |-> <<Range(2, <<"G", "B">>), Range(510, <<"G", "B">>)>>],
     meminfo |-> MemFile(<<MemTotalLine(32856636)>>),
     virt |-> FailWith(ExitError, <<"n", "o", "n", "e", "\n">>),
     kvm |-> NilErr,
     speed |-> [d \in Devs |-> Num(10000)]]

\* the dmidecode outcomes that sum to nothing, and two that do not
FallbackDmi ==
    {d \in DmiOutcomes : Len(d.recs) = 0}
    \cup {[err |-> NilErr, recs |-> <<l>>] :
            l \in {Range(512, <<"b", "y", "t", "e", "s">>), Range(8, <<"X", "B">>), Other(<<>>), Range(30, <<"G", "B">>), Range(4, <<"P", "B">>)}}

Hosts ==
    {[DefaultHost EXCEPT !.nproc = o] : o \in NprocOutcomes}
    \cup {[DefaultHost EXCEPT !.dmi = d] : d \in DmiOutcomes}
    \cup {[DefaultHost EXCEPT !.dmi = d, !.meminfo = f] : d \in FallbackDmi, f \in MemInfoFiles}
    \cup {[DefaultHost EXCEPT !.virt = o] : o \in VirtOutcomes}
    \cup {[DefaultHost EXCEPT !.kvm = e] : e \in StatOutcomes}
    \cup {[DefaultHost EXCEPT !.speed = f] : f \in [Devs -> SpeedFiles]}

\* the hosts on which concurrent callers are explored
ConcHosts ==
    {DefaultHost,
     [DefaultHost EXCEPT !.dmi = [err |-> ExecError, recs |-> <<>>]],
     [DefaultHost EXCEPT !.dmi = [err |-> NilErr, recs |-> <<Range(30, <<"G", "B">>), Range(4, <<"P", "B">>)>>],
                         !.nproc = Num(8), !.kvm = ErrNotExist],
     [DefaultHost EXCEPT !.dmi = [err |-> NilErr, recs |-> <<Range(30, <<"G", "B">>), Range(2048, <<"M", "B">>)>>],
                         !.virt = Text(<<"k", "v", "m", "\n">>), !.speed = [d \in Devs |-> IF d = "eth0" THEN Num(2500) ELSE Num(-1)]],
     [DefaultHost EXCEPT !.dmi = [err |-> NilErr, recs |-> <<Range(512, <<"b", "y", "t", "e", "s">>)>>],
                         !.meminfo = MemFile(<<MemFree>>), !.nproc = Fail(ExecError)]}

InitOn(H, P) ==
    /\ host \in H
    /\ procs = P
    /\ pc = [p \in AllProcs |-> "idle"]
    /\ check = [p \in AllProcs |-> NoCheck]
    /\ lines = [p \in AllProcs |-> <<>>]
    /\ pos = [p \in AllProcs |-> 0]
    /\ memTotalKiB = [p \in AllProcs |-> 0]
    /\ wiggleRoom = [p \in AllProcs |-> FullThreshold]
    /\ msg = [p \in AllProcs |-> NoMsg]
    /\ err = [p \in AllProcs |-> NilErr]
    /\ calls = [p \in AllProcs |-> {}]

Init == InitOn(Hosts, {1})

InitConc == InitOn(ConcHosts, AllProcs)

----------------------------------------------------------------------------
(* Actions *)

\* a write to a variable that all Run calls share
Shared(f, p, v) == [q \in DOMAIN f |-> v]

\* a write to a variable of the Run call of p: every call has its own
Local(f, p, v) == [f EXCEPT ![p] = v]

\* Run of p returns r
Return(p, r) ==
    /\ pc' = Local(pc, p, "done")
    /\ msg' = Local(msg, p, r.msg)
    /\ err' = Local(err, p, r.err)

RunCPU(p) ==
    /\ pc[p] = "idle"
    /\ check' = Local(check, p, CPUCheck)
    /\ calls' = Local(calls, p, {"nproc"})
    /\ Return(p, CPUCheckRun(host.nproc))
    /\ UNCHANGED <<host, procs, lines, pos, memTotalKiB, wiggleRoom>>

RunVirt(p) ==
    /\ pc[p] = "idle"
    /\ check' = Local(check, p, VirtCheck)
    /\ calls' = Local(calls, p, {"systemd-detect-virt"})
    /\ Return(p, VirtCheckRun(host.virt))
    /\ UNCHANGED <<host, procs, lines, pos, memTotalKiB, wiggleRoom>>

RunKVMHost(p) ==
    /\ pc[p] = "idle"
    /\ check' = Local(check, p, KVMHostCheck)
    /\ calls' = Local(calls, p, {"devKvm"})
    /\ Return(p, KVMHostCheckRun(host.kvm))
    /\ UNCHANGED <<host, procs, lines, pos, memTotalKiB, wiggleRoom>>

RunNetworkSpeed(p, dev) ==
    /\ pc[p] = "idle"
    /\ check' = Local(check, p, NetworkSpeedCheck(dev))
    /\ calls' = Local(calls, p, {"speed"})
    /\ Return(p, NetworkSpeedCheckRun(dev, host.speed[dev]))
    /\ UNCHANGED <<host, procs, lines, pos, memTotalKiB, wiggleRoom>>

\* lines 67-105 and the split of line 124: the locals are declared and
\* dmidecode is run; an error leaves the total at zero
MemDmidecode(p) ==
    /\ pc[p] = "idle"
    /\ check' = Local(check, p, MemoryCheck)
    /\ calls' = Local(calls, p, {"dmidecode"})
    /\ memTotalKiB' = Local(memTotalKiB, p, 0)
    /\ wiggleRoom' = Local(wiggleRoom, p, FullThreshold)
    /\ pos' = Local(pos, p, 0)
    /\ IF host.dmi.err = NilErr
       THEN /\ lines' = Local(lines, p, Split(DmiOutput(host.dmi.recs)))
            /\ pc' = Local(pc, p, "dmiLoop")
       ELSE /\ lines' = Local(lines, p, <<>>)
            /\ pc' = Local(pc, p, "memTotal")
    /\ UNCHANGED <<host, procs, msg, err>>

\* lines 124-138: one turn of the loop over the lines of dmidecode
MemRangeLine(p) ==
    /\ pc[p] = "dmiLoop"
    /\ LET r == SscanfRangeSize(TrimSpace(lines[p][pos[p] + 1]))
           huge == r.n = 2 /\ IsHugeUnit(r.unit)
       IN  /\ memTotalKiB' =
                 Local(memTotalKiB, p,
                       IF huge THEN OneTiBInKiB
                       ELSE IF r.n = 2 THEN memTotalKiB[p] + rangeSizeToKiB(r.rangeSize, r.unit)
                       ELSE memTotalKiB[p])
           /\ pc' = Local(pc, p, IF huge \/ pos[p] + 1 = Len(lines[p]) THEN "memTotal"
                                 ELSE "dmiLoop")
    /\ pos' = Local(pos, p, pos[p] + 1)
    /\ UNCHANGED <<host, procs, check, lines, wiggleRoom, msg, err, calls>>

\* lines 141-152: nothing came of dmidecode, the memory-info file is opened
MemOpen(p) ==
    /\ pc[p] = "memTotal"
    /\ memTotalKiB[p] = 0
    /\ calls' = Local(calls, p, calls[p] \cup {"procMemInfo"})
    /\ IF host.meminfo.err # NilErr
       THEN /\ Return(p, Result(NoMsg, host.meminfo.err))
            /\ UNCHANGED <<lines, pos>>
       ELSE /\ lines' = Local(lines, p, ScanLines(MemInfoData(host.meminfo.lines)))
            /\ pos' = Local(pos, p, 0)
            /\ pc' = Local(pc, p, IF lines'[p] = <<>> THEN "meminfoEnd" ELSE "meminfoLoop")
            /\ UNCHANGED <<msg, err>>
    /\ UNCHANGED <<host, procs, check, memTotalKiB, wiggleRoom>>

\* lines 154-158: one turn of the loop over the lines of the file
MemInfoLine(p) ==
    /\ pc[p] = "meminfoLoop"
    /\ LET r == SscanfMemTotal(lines[p][pos[p] + 1])
       IN  /\ memTotalKiB' = Local(memTotalKiB, p, IF r.n = 1 THEN r.memTotalKiB ELSE memTotalKiB[p])
           /\ pc' = Local(pc, p, IF r.n = 1 \/ pos[p] + 1 = Len(lines[p]) THEN "meminfoEnd"
                                 ELSE "meminfoLoop")
    /\ pos' = Local(pos, p, pos[p] + 1)
    /\ UNCHANGED <<host, procs, check, lines, wiggleRoom, msg, err, calls>>

\* lines 160-162 without the test: a total of zero goes on to the report
MemInfoMissingUntested(p) ==
    /\ pc[p] = "meminfoEnd"
    /\ memTotalKiB[p] = 0
    /\ wiggleRoom' = Local(wiggleRoom, p, FallbackWiggleRoom)
    /\ Return(p, MemoryReport(memTotalKiB[p], FallbackWiggleRoom))
    /\ UNCHANGED <<host, procs, check, lines, pos, memTotalKiB, calls>>

\* lines 160-162
MemInfoMissing(p) ==
    /\ pc[p] = "meminfoEnd"
    /\ memTotalKiB[p] = 0
    /\ Return(p, Result(NoMsg, Err("nomemtotal", <<>>, 0)))
    /\ UNCHANGED <<host, procs, check, lines, pos, memTotalKiB, wiggleRoom, calls>>

\* lines 176-200, after the fallback
MemReportFallback(p) ==
    /\ pc[p] = "meminfoEnd"
    /\ memTotalKiB[p] # 0
    /\ wiggleRoom' = Local(wiggleRoom, p, FallbackWiggleRoom)
    /\ Return(p, MemoryReport(memTotalKiB[p], wiggleRoom'[p]))
    /\ UNCHANGED <<host, procs, check, lines, pos, memTotalKiB, calls>>

\* lines 141 and 183-200, the fallback skipped
MemReportPrimary(p) ==
    /\ pc[p] = "memTotal"
    /\ memTotalKiB[p] # 0
    /\ Return(p, MemoryReport(memTotalKiB[p], wiggleRoom[p]))
    /\ UNCHANGED <<host, procs, check, lines, pos, memTotalKiB, wiggleRoom, calls>>

\* the caller has its result and may call a Run again
Discard(p) ==
    /\ pc[p] = "done"
    /\ pc' = Local(pc, p, "idle")
    /\ check' = Local(check, p, NoCheck)
    /\ lines' = Local(lines, p, <<>>)
    /\ pos' = Local(pos, p, 0)
    /\ memTotalKiB' = Local(memTotalKiB, p, 0)
    /\ wiggleRoom' = Local(wiggleRoom, p, FullThreshold)
    /\ msg' = Local(msg, p, NoMsg)
    /\ err' = Local(err, p, NilErr)
    /\ calls' = Local(calls, p, {})
    /\ UNCHANGED <<host, procs>>

Next ==
    \/ \E p \in procs : RunCPU(p)
    \/ \E p \in procs : RunVirt(p)
    \/ \E p \in procs : RunKVMHost(p)
    \/ \E p \in procs, dev \in Devs : RunNetworkSpeed(p, dev)
    \/ \E p \in procs : MemDmidecode(p)
    \/ \E p \in procs : MemRangeLine(p)
    \/ \E p \in procs : MemOpen(p)
    \/ \E p \in procs : MemInfoLine(p)
    \/ \E p \in procs : MemInfoMissing(p)
    \/ \E p \in procs : MemReportFallback(p)
    \/ \E p \in procs : MemReportPrimary(p)
    \/ \E p \in procs : Discard(p)

Spec == Init /\ [][Next]_vars

SpecConc == InitConc /\ [][Next]_vars

\* Run of check c on host h, from call to return
RunAlone(c, h) ==
    CASE c.type = "CPUCheck" -> CPUCheckRun(h.nproc)
      [] c.type = "MemoryCheck" -> MemoryCheckRun(h.dmi, h.meminfo)
      [] c.type = "VirtCheck" -> VirtCheckRun(h.virt)
      [] c.type = "KVMHostCheck" -> KVMHostCheckRun(h.kvm)
      [] c.type = "NetworkSpeedCheck" -> NetworkSpeedCheckRun(c.Dev, h.speed[c.Dev])

----------------------------------------------------------------------------
(* What the host declares, read off its description and not off the text   *)
(* the commands print: the properties below compare the two.               *)

Done(p) == p \in procs /\ pc[p] = "done"

\* the core count nproc printed, 0 for a text that is no number
DeclaredCount(o) ==
    IF o.kind = "num" THEN o.n ELSE IF o.text = <<" ", "8", " ", "\n">> THEN 8 ELSE 0

\* the speed a speed file holds, 0 for a text that is no number
DeclaredSpeed(o) == IF o.kind = "num" THEN o.n ELSE 0

\* the KiB of one line of the SMBIOS dump
DeclaredKiB(l) ==
    IF l.kind # "range" THEN 0
    ELSE CASE l.unit = <<"G", "B">> -> l.size * 1024 * 1024
           [] l.unit = <<"M", "B">> -> l.size * 1024
           [] l.unit = <<"k", "B">> -> l.size
           [] l.unit = <<"b", "y", "t", "e", "s">> -> l.size \div 1024
           [] OTHER -> 0

\* the sum of the ranges, taken from the last line to the first
RECURSIVE DeclaredSum(_)
DeclaredSum(recs) ==
    IF recs = <<>> THEN 0
    ELSE DeclaredKiB(recs[Len(recs)]) + DeclaredSum(SubSeq(recs, 1, Len(recs) - 1))

IsHugeLine(l) == l.kind = "range" /\ l.unit \in HugeUnits

HasHuge(recs) == \E i \in 1..Len(recs) : IsHugeLine(recs[i])

FirstHuge(recs) == CHOOSE i \in 1..Len(recs) : IsHugeLine(recs[i]) /\ \A j \in 1..(i - 1) : ~IsHugeLine(recs[j])

\* the total the primary source stands for
DeclaredPrimary(dmi) ==
    IF dmi.err # NilErr THEN 0
    ELSE IF HasHuge(dmi.recs) THEN 1073741824
    ELSE DeclaredSum(dmi.recs)

HasMemTotal(ls) == \E i \in 1..Len(ls) : ls[i].kind = "memtotal"

\* the value of the first MemTotal line of the file
DeclaredMemTotal(ls) ==
    LET i == CHOOSE i \in 1..Len(ls) : ls[i].kind = "memtotal" /\ \A j \in 1..(i - 1) : ls[j].kind # "memtotal"
    IN  ls[i].kb

\* a decimal such as 2.5 in thousandths
MilliOf(ds) ==
    LET dots == {i \in 1..Len(ds) : ds[i] = "."}
        k == IF dots = {} THEN Len(ds) + 1 ELSE CHOOSE i \in dots : TRUE
        frac == SubSeq(ds, k + 1, Len(ds))
        pad == SubSeq(<<"0", "0", "0">>, 1, 3 - Len(frac))
    IN  DigitsVal(SubSeq(ds, 1, k - 1), 0) * 1000 + DigitsVal(frac \o pad, 0)

----------------------------------------------------------------------------
(* Properties *)

\* C1: no Run of any check returns a non-empty message together with a
\* non-nil error.
MessageAndErrorDisjoint ==
    \A p \in procs : ~(msg[p] # NoMsg /\ err[p] # NilErr)

MessageAndErrorDisjointWitness ==
    \E p \in procs :
        /\ Done(p) /\ check[p].type = "NetworkSpeedCheck"
        /\ err[p].kind = "nicspeed" /\ msg[p] = NoMsg

\* C2: when nproc succeeds, a count below 8 gives the message with the count
\* and both minimums, a count from 8 to 15 the message with the count and the
\* production minimum only, a count of 16 or more no message; an output that
\* is no number counts as 0; the error is nil in every case.
CPUTiers ==
    \A p \in procs :
        Done(p) /\ check[p] = CPUCheck /\ host.nproc.err = NilErr =>
            LET c == DeclaredCount(host.nproc)
                m == msg[p]
            IN  /\ err[p] = NilErr
                /\ c < 8 => /\ m.tmpl = CPUBoth
                            /\ Atoi(m.args[1]) = c
                            /\ Tail(m.args) = <<<<"8">>, <<"1", "6">>>>
                /\ 8 <= c /\ c < 16 => /\ m.tmpl = CPUProd
                                       /\ Atoi(m.args[1]) = c
                                       /\ Tail(m.args) = <<<<"1", "6">>>>
                /\ c >= 16 => m = NoMsg

CPUTiersWitness ==
    \E p \in procs :
        /\ Done(p) /\ check[p] = CPUCheck
        /\ host.nproc = Text(<<"a", "l", "l", "\n">>)
        /\ msg[p].tmpl = CPUBoth /\ msg[p].args[1] = <<"0">>

\* C7: a non-zero exit of the detection utility with output "none" is a pass
\* (no message, nil error); any other failure is returned as it is, with no
\* message; a zero exit gives a nil error and the message naming what the
\* utility printed.
VirtOutcomeMapping ==
    \A p \in procs :
        Done(p) /\ check[p] = VirtCheck =>
            LET o == host.virt
            IN  /\ o.err # NilErr /\ o.text = <<"n", "o", "n", "e", "\n">> => msg[p] = NoMsg /\ err[p] = NilErr
                /\ o.err # NilErr /\ o.text # <<"n", "o", "n", "e", "\n">> => msg[p] = NoMsg /\ err[p] = o.err
                /\ o.err = NilErr => /\ err[p] = NilErr
                                     /\ msg[p].tmpl = VirtMsg
                                     /\ Len(msg[p].args) = 1
                                     /\ msg[p].args[1] \o <<"\n">> = o.text

VirtOutcomeMappingWitness ==
    \E p \in procs :
        /\ Done(p) /\ check[p] = VirtCheck
        /\ host.virt = Text(<<"k", "v", "m", "\n">>)
        /\ msg[p] = Msg(VirtMsg, <<<<"k", "v", "m">>>>)

\* C8: a failed read of the speed file is returned with no message; a speed
\* below 1 (an unparseable one counts as 0) is an error naming the path and
\* the speed, with no message; from 1 to 999 the message with both minimums
\* carries the Mbps; from 1000 to 9999 the production message carries the
\* speed over 1000 in Gbps, 2.5 for 2500; from 10000 on there is no message.
NetworkSpeedTiers ==
    \A p \in procs :
        Done(p) /\ check[p].type = "NetworkSpeedCheck" =>
            LET d == check[p].Dev
                o == host.speed[d]
                s == DeclaredSpeed(o)
                m == msg[p]
            IN  /\ o.err # NilErr => m = NoMsg /\ err[p] = o.err
                /\ o.err = NilErr /\ s < 1 =>
                      /\ m = NoMsg
                      /\ err[p] = Err("nicspeed", <<"/sys/class/net/", d, "/speed">>, s)
                /\ o.err = NilErr /\ 1 <= s /\ s < 1000 =>
                      /\ err[p] = NilErr
                      /\ m.tmpl = NetBoth
                      /\ m.args[1] = <<d>> /\ Atoi(m.args[2]) = s
                      /\ SubSeq(m.args, 3, 4) = <<<<"1">>, <<"1", "0">>>>
                /\ o.err = NilErr /\ 1000 <= s /\ s < 10000 =>
                      /\ err[p] = NilErr
                      /\ m.tmpl = NetProd
                      /\ m.args[1] = <<d>> /\ MilliOf(m.args[2]) = s
                      /\ s = 2500 => m.args[2] = <<"2", ".", "5">>
                      /\ m.args[3] = <<"1", "0">>
                /\ o.err = NilErr /\ s >= 10000 => m = NoMsg /\ err[p] = NilErr

NetworkSpeedTiersWitness ==
    \E p \in procs :
        /\ Done(p) /\ check[p].type = "NetworkSpeedCheck"
        /\ host.speed[check[p].Dev] = Num(2500)
        /\ msg[p].tmpl = NetProd /\ msg[p].args[2] = <<"2", ".", "5">>

\* C9: an absent device node gives the message and a nil error, a present
\* one no message and a nil error, any other stat error no message and that
\* error.
KVMHostOutcomes ==
    \A p \in procs :
        Done(p) /\ check[p] = KVMHostCheck =>
            /\ host.kvm = ErrNotExist => msg[p] = Msg(KVMMsg, <<>>) /\ err[p] = NilErr
            /\ host.kvm = NilErr => msg[p] = NoMsg /\ err[p] = NilErr
            /\ host.kvm \notin {ErrNotExist, NilErr} => msg[p] = NoMsg /\ err[p] = host.kvm

KVMHostOutcomesWitness ==
    \E p \in procs :
        /\ Done(p) /\ check[p] = KVMHostCheck
        /\ host.kvm = ErrPermission /\ err[p] = ErrPermission /\ msg[p] = NoMsg

\* C3: the total in whole GiB is compared with the minimums times 1.0 when
\* it came from the DMI source and times 0.9 when it came from the
\* memory-info file: below 32 times that, the message with both minimums;
\* else below 64 times that, the production message; else no message.  A
\* MemTotal of 32856636 kB from the file is reported as 31GiB and fails
\* the production tier only.
MemoryTiers ==
    \A p \in procs :
        Done(p) /\ check[p] = MemoryCheck /\ err[p] = NilErr =>
            LET fallback == DeclaredPrimary(host.dmi) = 0
                total == IF fallback THEN DeclaredMemTotal(host.meminfo.lines)
                         ELSE DeclaredPrimary(host.dmi)
                gib == total \div (1024 * 1024)
                tenths == IF fallback THEN 9 ELSE 10
                m == msg[p]
            IN  /\ ("procMemInfo" \in calls[p]) = fallback
                /\ wiggleRoom[p] = tenths
                /\ 10 * gib < 32 * tenths =>
                      m.tmpl = MemBoth /\ Tail(m.args) = <<<<"3", "2">>, <<"6", "4">>>>
                /\ 10 * gib >= 32 * tenths /\ 10 * gib < 64 * tenths =>
                      m.tmpl = MemProd /\ Tail(m.args) = <<<<"6", "4">>>>
                /\ 10 * gib >= 64 * tenths => m = NoMsg
                /\ fallback /\ host.meminfo.lines = <<MemTotalLine(32856636)>> =>
                      m = Msg(MemProd, <<<<"3", "1", "G", "i", "B">>, <<"6", "4">>>>)

MemoryTiersWitness ==
    \E p \in procs :
        /\ Done(p) /\ check[p] = MemoryCheck
        /\ "procMemInfo" \in calls[p]
        /\ host.meminfo.lines = <<MemTotalLine(32856636)>>
        /\ msg[p].tmpl = MemProd /\ msg[p].args[1] = <<"3", "1", "G", "i", "B">>

AllSummed(recs) == \A i \in 1..Len(recs) : recs[i].kind = "range" => recs[i].unit \in SummedUnits

\* C4: when dmidecode succeeds and no range has a TB, PB, EB or ZB unit, the
\* total after the loop is the sum of the ranges converted to KiB, in
\* whatever order they come; the ranges 2 GB and 510 GB give 512 GiB, and
\* the check passes with the full thresholds.
PrimaryTotalIsSum ==
    \A p \in procs :
        check[p] = MemoryCheck /\ host.dmi.err = NilErr /\ AllSummed(host.dmi.recs) =>
            LET recs == host.dmi.recs
            IN  /\ pc[p] = "memTotal" => memTotalKiB[p] = DeclaredSum(recs)
                /\ recs \in {<<Range(2, <<"G", "B">>), Range(510, <<"G", "B">>)>>, <<Range(510, <<"G", "B">>), Range(2, <<"G", "B">>)>>}
                   /\ pc[p] \in {"memTotal", "done"} =>
                      /\ memTotalKiB[p] = 512 * 1024 * 1024
                      /\ wiggleRoom[p] = 10
                      /\ pc[p] = "done" => msg[p] = NoMsg /\ err[p] = NilErr

PrimaryTotalIsSumWitness ==
    \E p \in procs :
        /\ Done(p) /\ check[p] = MemoryCheck
        /\ host.dmi.recs = <<Range(510, <<"G", "B">>), Range(2, <<"G", "B">>)>>
        /\ memTotalKiB[p] = 536870912 /\ msg[p] = NoMsg /\ err[p] = NilErr

\* C5: once a range with a TB, PB, EB or ZB unit is read, the total is 2^30
\* KiB whatever came before it and whatever its size, the loop reads no
\* further line, the fallback is not entered and the check returns no
\* message and no error.
HugeUnitClamps ==
    \A p \in procs :
        check[p] = MemoryCheck /\ host.dmi.err = NilErr /\ HasHuge(host.dmi.recs) =>
            LET k == FirstHuge(host.dmi.recs)
            IN  /\ pc[p] = "dmiLoop" => pos[p] < k
                /\ pc[p] \in {"memTotal", "done"} => memTotalKiB[p] = 1073741824 /\ pos[p] = k
                /\ pc[p] \notin {"meminfoLoop", "meminfoEnd"}
                /\ "procMemInfo" \notin calls[p]
                /\ pc[p] = "done" => msg[p] = NoMsg /\ err[p] = NilErr

HugeUnitClampsWitness ==
    \E p \in procs :
        /\ Done(p) /\ check[p] = MemoryCheck
        /\ host.dmi.recs = <<Range(30, <<"G", "B">>), Range(3, <<"Z", "B">>)>>
        /\ memTotalKiB[p] = 1073741824 /\ msg[p] = NoMsg /\ err[p] = NilErr

\* C6 as stated: the file is consulted only when the primary total is zero,
\* and the check returns an error exactly when the primary total is zero and
\* the file cannot be opened or holds no MemTotal value.
MemoryErrorIffNoMemTotal ==
    \A p \in procs :
        check[p] = MemoryCheck =>
            LET primary == DeclaredPrimary(host.dmi)
                file == host.meminfo
            IN  /\ "procMemInfo" \in calls[p] => primary = 0
                /\ Done(p) =>
                      (err[p] # NilErr) =
                          (primary = 0 /\ (file.err # NilErr \/ ~HasMemTotal(file.lines)))

\* C6, amended: the file is consulted only when the primary total is zero;
\* the check returns an error, with no message, exactly when the primary
\* total is zero and the file cannot be opened, holds no MemTotal line, or
\* its first MemTotal line carries the value 0; with a nonzero primary total
\* the file is not opened and no error is returned.
MemoryErrorIffNoTotal ==
    \A p \in procs :
        check[p] = MemoryCheck =>
            LET primary == DeclaredPrimary(host.dmi)
                file == host.meminfo
            IN  /\ "procMemInfo" \in calls[p] => primary = 0
                /\ Done(p) =>
                      /\ (err[p] # NilErr) =
                            (primary = 0 /\ (\/ file.err # NilErr
                                             \/ ~HasMemTotal(file.lines)
                                             \/ DeclaredMemTotal(file.lines) = 0))
                      /\ err[p] # NilErr => msg[p] = NoMsg
                      /\ primary = 0 /\ file.err # NilErr => err[p] = file.err
                      /\ primary # 0 => err[p] = NilErr /\ "procMemInfo" \notin calls[p]

MemoryErrorIffNoTotalWitness ==
    \E p \in procs :
        /\ Done(p) /\ check[p] = MemoryCheck
        /\ host.dmi.recs = <<Range(512, <<"b", "y", "t", "e", "s">>)>>
        /\ host.meminfo = MemFile(<<MemFree>>)
        /\ err[p].kind = "nomemtotal" /\ msg[p] = NoMsg

\* the variables of the Run call of p
Locals(p) ==
    <<pc[p], check[p], lines[p], pos[p], memTotalKiB[p], wiggleRoom[p], msg[p], err[p], calls[p]>>

\* C10: with callers interleaved in any way, every Run returns what the
\* same check returns when it runs alone on the host; no step writes the
\* host, and a step of one Run leaves the variables of every other Run as
\* they are.
ChecksIndependent ==
    /\ [](\A p \in procs : pc[p] = "done" => Result(msg[p], err[p]) = RunAlone(check[p], host))
    /\ [][/\ host' = host
          /\ \A p, q \in AllProcs : p # q => Locals(p)' = Locals(p) \/ Locals(q)' = Locals(q)]_vars

ChecksIndependentWitness ==
    \E p, q \in procs :
        /\ p # q
        /\ check[p] = MemoryCheck /\ check[q] = MemoryCheck
        /\ pc[p] = "dmiLoop" /\ pos[p] = 1 /\ memTotalKiB[p] # 0
        /\ pc[q] = "done" /\ msg[q] # NoMsg

====
